---- MODULE Spec2Model ----
(***************************************************************************)
(* Model of the message-routing assistant: the decision tables of the two  *)
(* handlers, the outbound queue and its dispatcher (outgoing_worker), the  *)
(* inbound handler (handle_incoming_message) and the approval dashboard.   *)
(***************************************************************************)
EXTENDS Integers, Sequences, FiniteSets, TLC

(***************************************************************************)
(* Enumerations of the classifier and of the reply generator.              *)
(***************************************************************************)
\* group_message_classifier.py MESSAGE_TYPES plus the fallback type 'unknown'
MESSAGE_TYPES ==
    {"factual_question", "scheduling", "status_update", "technical_problem",
     "customer_complaint", "decision_required", "task_assignment",
     "acknowledgment", "general_chat", "question_to_specific_person",
     "group_discussion", "follow_up", "unknown"}

URGENCY_LEVELS == {"low", "medium", "high", "critical"}

\* the "action" the reply generator's JSON may carry
REPLY_ACTIONS == {"auto_send", "queue_approval", "escalate"}

\* escalate_to of a draft: null or a person's name
ESCALATE_TARGETS == {"null", "Lothar"}

MaxConfidence == 100

AUTO_SEND_THRESHOLD == 85
QUEUE_APPROVAL_THRESHOLD == 60
VERY_HIGH_CONFIDENCE == 90

ALWAYS_QUEUE == {"decision_required", "customer_complaint"}

\* IntegratedMessageHandler.SAFE_AUTO_SEND
SAFE_AUTO_SEND_INTEGRATED == {"acknowledgment", "status_update"}

\* GroupAwareMessageHandler.SAFE_AUTO_SEND
SAFE_AUTO_SEND_GROUP_AWARE == {"acknowledgment", "status_update", "factual_question"}

(***************************************************************************)
(* The decision tables.  Each returns the decision record of the code; a   *)
(* key the code leaves out of the returned dict is "absent" here.          *)
(***************************************************************************)
Decision(action, escalate_to, warning) ==
    [action |-> action, escalate_to |-> escalate_to, warning |-> warning]

\* variant of IntegratedDecideAction: the escalation rule is tested before
\* the always-queue types
IntegratedDecideAction_EscalationFirst(enable, msg_type, confidence, suggested_action, escalate_to) ==
    IF ~enable
    THEN Decision("queue_approval", escalate_to, FALSE)
    ELSE IF suggested_action = "escalate" \/ escalate_to # "null"
    THEN Decision("escalate",
                  IF escalate_to # "null" THEN escalate_to ELSE "manager", FALSE)
    ELSE IF msg_type \in ALWAYS_QUEUE
    THEN Decision("queue_approval", escalate_to, FALSE)
    ELSE IF confidence >= AUTO_SEND_THRESHOLD /\ msg_type \in SAFE_AUTO_SEND_INTEGRATED
    THEN Decision("auto_send", "null", FALSE)
    ELSE IF confidence >= VERY_HIGH_CONFIDENCE
    THEN Decision("auto_send", "null", FALSE)
    ELSE IF confidence >= QUEUE_APPROVAL_THRESHOLD
    THEN Decision("queue_approval", "null", FALSE)
    ELSE Decision("queue_approval", "null", TRUE)

\* IntegratedMessageHandler._decide_action
IntegratedDecideAction(enable, msg_type, confidence, suggested_action, escalate_to) ==
    IF ~enable
    THEN Decision("queue_approval", escalate_to, FALSE)
    ELSE IF msg_type \in ALWAYS_QUEUE
    THEN Decision("queue_approval", escalate_to, FALSE)
    ELSE IF suggested_action = "escalate" \/ escalate_to # "null"
    THEN Decision("escalate",
                  IF escalate_to # "null" THEN escalate_to ELSE "manager", FALSE)
    ELSE IF confidence >= AUTO_SEND_THRESHOLD /\ msg_type \in SAFE_AUTO_SEND_INTEGRATED
    THEN Decision("auto_send", "null", FALSE)
    ELSE IF confidence >= VERY_HIGH_CONFIDENCE
    THEN Decision("auto_send", "null", FALSE)
    ELSE IF confidence >= QUEUE_APPROVAL_THRESHOLD
    THEN Decision("queue_approval", "null", FALSE)
    ELSE Decision("queue_approval", "null", TRUE)

\* variant of DecideGroupAction: a mention of the bot at very high confidence
\* is tested before the global switch
DecideGroupAction_MentionFirst(enable, msg_type, urgency, confidence, bot_mentioned) ==
    IF bot_mentioned /\ confidence >= VERY_HIGH_CONFIDENCE
    THEN Decision("auto_send", "absent", FALSE)
    ELSE IF ~enable
    THEN Decision("queue_approval", "absent", FALSE)
    ELSE IF msg_type \in ALWAYS_QUEUE
    THEN Decision("queue_approval", "absent", FALSE)
    ELSE IF msg_type = "factual_question" /\ confidence >= VERY_HIGH_CONFIDENCE
    THEN Decision("auto_send", "absent", FALSE)
    ELSE IF msg_type = "technical_problem"
    THEN IF urgency = "critical" /\ confidence >= AUTO_SEND_THRESHOLD
         THEN Decision("auto_send", "absent", FALSE)
         ELSE Decision("queue_approval", "absent", FALSE)
    ELSE Decision("queue_approval", "absent", FALSE)

\* variant of DecideGroupAction: a technical problem is answered
\* automatically at the auto-send threshold whatever its urgency
DecideGroupAction_TechnicalAnyUrgency(enable, msg_type, urgency, confidence, bot_mentioned) ==
    IF ~enable
    THEN Decision("queue_approval", "absent", FALSE)
    ELSE IF msg_type \in ALWAYS_QUEUE
    THEN Decision("queue_approval", "absent", FALSE)
    ELSE IF bot_mentioned /\ confidence >= VERY_HIGH_CONFIDENCE
    THEN Decision("auto_send", "absent", FALSE)
    ELSE IF msg_type = "factual_question" /\ confidence >= VERY_HIGH_CONFIDENCE
    THEN Decision("auto_send", "absent", FALSE)
    ELSE IF msg_type = "technical_problem"
    THEN IF confidence >= AUTO_SEND_THRESHOLD
         THEN Decision("auto_send", "absent", FALSE)
         ELSE Decision("queue_approval", "absent", FALSE)
    ELSE Decision("queue_approval", "absent", FALSE)

\* GroupAwareMessageHandler._decide_group_action
DecideGroupAction(enable, msg_type, urgency, confidence, bot_mentioned) ==
    IF ~enable
    THEN Decision("queue_approval", "absent", FALSE)
    ELSE IF msg_type \in ALWAYS_QUEUE
    THEN Decision("queue_approval", "absent", FALSE)
    ELSE IF bot_mentioned /\ confidence >= VERY_HIGH_CONFIDENCE
    THEN Decision("auto_send", "absent", FALSE)
    ELSE IF msg_type = "factual_question" /\ confidence >= VERY_HIGH_CONFIDENCE
    THEN Decision("auto_send", "absent", FALSE)
    ELSE IF msg_type = "technical_problem"
    THEN IF urgency = "critical" /\ confidence >= AUTO_SEND_THRESHOLD
         THEN Decision("auto_send", "absent", FALSE)
         ELSE Decision("queue_approval", "absent", FALSE)
    ELSE Decision("queue_approval", "absent", FALSE)

\* variant of DecideAction: without the rule of very high confidence
DecideAction_SafeTypesOnly(enable, msg_type, confidence) ==
    IF ~enable
    THEN Decision("queue_approval", "absent", FALSE)
    ELSE IF msg_type \in ALWAYS_QUEUE
    THEN Decision("queue_approval", "absent", FALSE)
    ELSE IF confidence >= AUTO_SEND_THRESHOLD /\ msg_type \in SAFE_AUTO_SEND_GROUP_AWARE
    THEN Decision("auto_send", "absent", FALSE)
    ELSE Decision("queue_approval", "absent", FALSE)

\* GroupAwareMessageHandler._decide_action (the DM table of the running bot)
DecideAction(enable, msg_type, confidence) ==
    IF ~enable
    THEN Decision("queue_approval", "absent", FALSE)
    ELSE IF msg_type \in ALWAYS_QUEUE
    THEN Decision("queue_approval", "absent", FALSE)
    ELSE IF confidence >= AUTO_SEND_THRESHOLD /\ msg_type \in SAFE_AUTO_SEND_GROUP_AWARE
    THEN Decision("auto_send", "absent", FALSE)
    ELSE IF confidence >= VERY_HIGH_CONFIDENCE
    THEN Decision("auto_send", "absent", FALSE)
    ELSE Decision("queue_approval", "absent", FALSE)

(***************************************************************************)
(* Reply generator: confidence ceilings and the failure fallback.          *)
(***************************************************************************)
Min(a, b) == IF a <= b THEN a ELSE b
Max(a, b) == IF a >= b THEN a ELSE b

\* A resolved context: empty (the dict is falsy), project / schedule present.
CONTEXTS == [empty : BOOLEAN, project : BOOLEAN, schedule : BOOLEAN]

\* MockDatabase.query_context never returns an empty dict: when nothing was
\* found it stores the 'note' marker, so the dict handed on is truthy.
QUERY_CONTEXTS == {c \in CONTEXTS : ~c.empty}

\* variant of AdjustConfidence: the ceilings of the scheduling type and of
\* the types that always need review are left out
AdjustConfidence_NoTypeCeilings(base_confidence, ctx, msg_type) ==
    LET c1 == IF ctx.empty \/ ~ctx.project THEN Min(base_confidence, 70)
              ELSE base_confidence
        c2 == IF msg_type = "factual_question" /\ ctx.empty THEN Min(c1, 50) ELSE c1
    IN  Max(0, Min(MaxConfidence, c2))

\* SmartReplyGenerator._adjust_confidence
AdjustConfidence(base_confidence, ctx, msg_type) ==
    LET c1 == IF ctx.empty \/ ~ctx.project THEN Min(base_confidence, 70)
              ELSE base_confidence
        c2 == IF msg_type = "factual_question" /\ ctx.empty THEN Min(c1, 50) ELSE c1
        c3 == IF msg_type = "scheduling" /\ ~ctx.schedule THEN Min(c2, 60) ELSE c2
        c4 == IF msg_type \in {"decision_required", "customer_complaint"}
              THEN Min(c3, 75) ELSE c3
    IN  Max(0, Min(MaxConfidence, c4))

\* what the model may answer to the reply prompt
MODEL_REPLIES ==
    [ok : {TRUE}, confidence : 0..MaxConfidence, action : REPLY_ACTIONS,
     escalate_to : ESCALATE_TARGETS]

\* the 'except' branch of SmartReplyGenerator.generate_reply
FALLBACK_REPLY ==
    [ok |-> FALSE, confidence |-> 0, action |-> "queue_approval", escalate_to |-> "null"]

\* SmartReplyGenerator.generate_reply: the reply data handed to the decision
GenerateReply(answer, ctx, msg_type) ==
    IF answer.ok
    THEN [reply |-> "ai_reply",
          confidence |-> AdjustConfidence(answer.confidence, ctx, msg_type),
          action |-> answer.action, escalate_to |-> answer.escalate_to]
    ELSE [reply |-> "fallback_reply", confidence |-> 0,
          action |-> "queue_approval", escalate_to |-> "null"]

(***************************************************************************)
(* Classifiers: what the model may answer, and the failure fallbacks.      *)
(***************************************************************************)
\* GroupMessageClassifier.classify_group_message, the 'try' branch
GROUP_CLASSIFICATIONS ==
    [ok : {TRUE}, should_respond : BOOLEAN, message_type : MESSAGE_TYPES,
     urgency : URGENCY_LEVELS, bot_mentioned : BOOLEAN]

\* GroupMessageClassifier.classify_group_message, the 'except' branch
GROUP_FALLBACK_CLASSIFICATION ==
    [ok |-> FALSE, should_respond |-> FALSE, message_type |-> "unknown",
     urgency |-> "medium", bot_mentioned |-> FALSE]

\* MessageClassifier.classify, the 'try' branch
DM_CLASSIFICATIONS ==
    [ok : {TRUE}, should_respond : {TRUE}, message_type : MESSAGE_TYPES,
     urgency : URGENCY_LEVELS, bot_mentioned : {FALSE}]

\* MessageClassifier.classify, the 'except' branch
DM_FALLBACK_CLASSIFICATION ==
    [ok |-> FALSE, should_respond |-> TRUE, message_type |-> "unknown",
     urgency |-> "medium", bot_mentioned |-> FALSE]

(***************************************************************************)
(* GroupAwareMessageHandler: the result of process_message, reduced to the *)
(* fields the inbound handler reads, plus which decision table was called. *)
(***************************************************************************)
\* variant of ProcessGroupMessage: the classification's should_respond is
\* not looked at, every group message gets a draft and a decision
ProcessGroupMessage_AlwaysRespond(enable, cls, ctx, answer) ==
    LET reply_data == GenerateReply(answer, ctx, cls.message_type)
        final == DecideGroupAction(enable, cls.message_type, cls.urgency,
                                   reply_data.confidence, cls.bot_mentioned)
    IN  [should_respond |-> TRUE, decided |-> "group", action |-> final.action,
         ai_suggestion |-> reply_data.reply, class_ok |-> cls.ok,
         classified_respond |-> cls.should_respond]

\* GroupAwareMessageHandler._process_group_message
ProcessGroupMessage(enable, cls, ctx, answer) ==
    IF ~cls.should_respond
    THEN [should_respond |-> FALSE, decided |-> "none", action |-> "skip",
          ai_suggestion |-> "No response generated", class_ok |-> cls.ok,
          classified_respond |-> cls.should_respond]
    ELSE LET reply_data == GenerateReply(answer, ctx, cls.message_type)
             final == DecideGroupAction(enable, cls.message_type, cls.urgency,
                                        reply_data.confidence, cls.bot_mentioned)
         IN  [should_respond |-> TRUE, decided |-> "group", action |-> final.action,
              ai_suggestion |-> reply_data.reply, class_ok |-> cls.ok,
              classified_respond |-> cls.should_respond]

\* GroupAwareMessageHandler._process_dm
ProcessDm(enable, cls, ctx, answer) ==
    LET reply_data == GenerateReply(answer, ctx, cls.message_type)
        final == DecideAction(enable, cls.message_type, reply_data.confidence)
    IN  [should_respond |-> TRUE, decided |-> "dm", action |-> final.action,
         ai_suggestion |-> reply_data.reply, class_ok |-> cls.ok,
         classified_respond |-> cls.should_respond]

\* GroupAwareMessageHandler.process_message: every result the pipeline can
\* hand to the inbound handler, over all answers of the external model
ProcessMessageResults ==
    [enable \in BOOLEAN, is_group \in BOOLEAN |->
        IF is_group
        THEN {ProcessGroupMessage(enable, cls, ctx, answer) :
                 cls \in GROUP_CLASSIFICATIONS \cup {GROUP_FALLBACK_CLASSIFICATION},
                 ctx \in QUERY_CONTEXTS,
                 answer \in MODEL_REPLIES \cup {FALLBACK_REPLY}}
        ELSE {ProcessDm(enable, cls, ctx, answer) :
                 cls \in DM_CLASSIFICATIONS \cup {DM_FALLBACK_CLASSIFICATION},
                 ctx \in QUERY_CONTEXTS,
                 answer \in MODEL_REPLIES \cup {FALLBACK_REPLY}}]

(***************************************************************************)
(* Configuration (config.py) and the translator's language table.          *)
(***************************************************************************)
YOUR_LANGUAGE == "en"

\* OpenAITranslator.LANGUAGES
LANGUAGES ==
    [c \in {"hi", "en", "de", "pl", "ru", "es", "fr", "it", "pt", "nl", "auto"} |->
        CASE c = "hi" -> "Hindi"   [] c = "en" -> "English" [] c = "de" -> "German"
          [] c = "pl" -> "Polish"  [] c = "ru" -> "Russian" [] c = "es" -> "Spanish"
          [] c = "fr" -> "French"  [] c = "it" -> "Italian" [] c = "pt" -> "Portuguese"
          [] c = "nl" -> "Dutch"   [] c = "auto" -> "Auto-detect"]

\* translator.LANGUAGES.get(code, code)
LangName(code) == IF code \in DOMAIN LANGUAGES THEN LANGUAGES[code] ELSE code

\* the language names of the text pattern in handle_incoming_message
PATTERN_LANGUAGES == {"Polish", "German", "English", "Spanish", "French", "Hindi"}

\* TRANSLATION_SETTINGS['group_languages']: a configuration with a language
\* that the handler's text pattern names and one of the table that it does not
GROUP_LANGUAGE_CONFIGS == {<<"pl", "ru">>}

\* language codes detect_language reports in the model
DETECTED_LANGUAGES == {"en", "pl"}

(***************************************************************************)
(* Bounds of the model.                                                    *)
(***************************************************************************)
MaxMsgs == 2        \* platform messages ever posted
MaxRows == 3        \* rows ever inserted into outgoing_messages
MaxTokens == 1      \* approval tokens the inbound handler ever generates
MaxApprovals == 2   \* approvals pending when the dashboard starts
MaxRequests == 2    \* dashboard requests ever received
NumThreads == 2     \* dashboard request threads
MaxFaults == 2      \* failures of the store, the platform and the translator

Threads == 1..NumThreads
Tokens == 1..(IF MaxTokens >= MaxApprovals THEN MaxTokens ELSE MaxApprovals)

VARIABLES
    autoReply,        \* ENABLE_AUTO_REPLY
    group_languages,  \* TRANSLATION_SETTINGS['group_languages']
    columns,          \* optional columns of table outgoing_messages
    YOUR_USER_ID,     \* the global of that name: None until main assigns it
    queue,            \* table outgoing_messages, in created_at order
    nextRowId,        \* AUTOINCREMENT of outgoing_messages
    approvals,        \* table pending_approvals: token -> row
    nextToken,        \* tokens generated so far + 1
    corrections,      \* table message_corrections
    markers,          \* table bot_translation_messages (message ids)
    inbox,            \* platform messages not yet seen by the inbound handler
    nextMsgId,        \* platform message ids
    worker,           \* outgoing_worker: position, row in hand, sent message
    sent,             \* transmissions made so far, by identity
    lastRun,          \* what the last run of the inbound handler did
    thr,              \* dashboard request threads
    requests,         \* dashboard requests received so far
    lastResponse,     \* the last response of the dashboard
    enqueuedFor,      \* token -> jobs ever enqueued by approve / edit
    faults,           \* failures injected so far
    din, dout,        \* inputs and results of the decision tables
    pin, pout,        \* inputs and results of the analysis pipeline
    stamp,            \* dashboard insert under way: id the queue had reached
                      \* when its created_at was taken (0: none)
    translation_cache,\* table translation_cache, in created_at order
    lastCall,         \* the last call of OpenAITranslator.translate
    obtained,         \* (text, target) -> translation last obtained from the service
    runs,             \* runs of handle_incoming_message: the await each one is at
    user_languages,   \* table user_languages: user -> language
    lastLookup,       \* the last get_user_language: user, read outcome, result
    lastSet           \* user -> language of the last set_user_language that succeeded

vars == <<autoReply, group_languages, columns, YOUR_USER_ID, queue, nextRowId, approvals,
          nextToken, corrections, markers, inbox, nextMsgId, worker, sent,
          lastRun, thr, requests, lastResponse, enqueuedFor, faults, din, dout,
          pin, pout, stamp, translation_cache, lastCall, obtained, runs,
          user_languages, lastLookup, lastSet>>

configVars == <<autoReply, group_languages, columns, YOUR_USER_ID>>
botVars == <<markers, inbox, nextMsgId, worker, sent, lastRun>>
dashVars == <<thr, requests, lastResponse, enqueuedFor>>
translatorVars == <<translation_cache, lastCall, obtained>>
decideVars == <<din, dout, pin, pout>>
prefVars == <<user_languages, lastLookup, lastSet>>

\* the failures of a step: one per operation that did not succeed
Failed(ok) == IF ok THEN 0 ELSE 1

\* a step may fail n times when the budget of failures allows it
Inject(n) ==
    /\ faults + n <= MaxFaults
    /\ faults' = faults + n

(***************************************************************************)
(* Texts.  A text is its leading "<Name>:" header (empty when it has none),*)
(* the content it carries, and the language version of that content.       *)
(***************************************************************************)
Text(prefix, body, lang) == [prefix |-> prefix, body |-> body, lang |-> lang]

\* OpenAITranslator.translate as the bot calls it (source # target): the
\* translation on success, the original text when the external call failed
Translate(ok, text, target_lang) ==
    IF ok THEN [text EXCEPT !.lang = target_lang] ELSE text

\* f"{lang_name}:\n{translated_text}"
BroadcastMessage(lang_name, translated_text) ==
    [translated_text EXCEPT !.prefix = lang_name]

\* the text pattern of handle_incoming_message: a ':' and one of the
\* pattern's language names in front of it
MatchesTranslationPattern(text) == text.prefix \in PATTERN_LANGUAGES

(***************************************************************************)
(* The outbound queue: outgoing_messages.                                  *)
(***************************************************************************)
ALL_COLUMNS == {"sender_type", "message_category"}

\* a stored row; a column the INSERT leaves out takes the column default
Row(id, user_id, message, is_group, chat_id, topic_id, target_language, sender_type, message_category) ==
    [id |-> id, user_id |-> user_id, message |-> message, is_group |-> is_group,
     chat_id |-> chat_id, topic_id |-> topic_id, target_language |-> target_language,
     sender_type |-> sender_type, message_category |-> message_category]

\* telegram_bot_groups.queue_message: the row it inserts under the given columns
QueueMessageRow(cols, id, user_id, message, chat_id, topic_id, target_language, message_category, sender_type, is_group) ==
    IF "message_category" \in cols /\ "sender_type" \in cols
    THEN Row(id, user_id, message, is_group, chat_id, topic_id, target_language,
             sender_type, message_category)
    ELSE IF "sender_type" \in cols
    THEN Row(id, user_id, message, is_group, chat_id, topic_id, target_language,
             sender_type, "response")
    ELSE Row(id, user_id, message, is_group, chat_id, topic_id, target_language,
             "user", "response")

\* get_next_outgoing: the oldest row, with the defaults of missing columns
GetNextOutgoing(cols, q) ==
    LET r == Head(q)
    IN  [r EXCEPT !.sender_type = IF "sender_type" \in cols THEN @ ELSE "user",
                  !.message_category =
                      IF "message_category" \in cols THEN @ ELSE "response"]

\* delete_outgoing: DELETE FROM outgoing_messages WHERE id = ?
DeleteOutgoing(q, msg_id) == SelectSeq(q, LAMBDA r : r.id # msg_id)

\* the routing invariant of the spec, on a (category, sender) pair
ViolatesRouting(sender_type, message_category) ==
    \/ message_category = "translation" /\ sender_type = "user"
    \/ message_category \in {"response", "notification"} /\ sender_type = "bot"

Transmitter_BotForAnyTranslation(row) ==
    IF row.sender_type = "bot" /\ row.message_category = "translation"
    THEN "bot"
    ELSE "user"

\* outgoing_worker: the identity that transmits a dequeued row, or "none"
\* when the row is dropped without a transmission
Transmitter(row) ==
    IF row.sender_type = "bot" /\ row.message_category = "translation"
    THEN IF row.is_group /\ row.chat_id # "none" THEN "bot" ELSE "none"
    ELSE "user"

(***************************************************************************)
(* Platform messages and the transmission log.                             *)
(***************************************************************************)
NoText == Text("", "", "orig")
NoRow == Row(0, "none", NoText, FALSE, "none", "none", "none", "user", "response")

\* a message as the inbound handler's event shows it
Event(id, sender, user_id, is_group, chat_id, text) ==
    [id |-> id, sender |-> sender, user_id |-> user_id, is_group |-> is_group,
     chat_id |-> chat_id, text |-> text]

\* one transmission: the identity used, what was sent, and for a queued job its row
Transmission(via, kind, row) ==
    [via |-> via, kind |-> kind, sender_type |-> row.sender_type,
     message_category |-> row.message_category, is_group |-> row.is_group,
     chat_id |-> row.chat_id]

IdleWorker == [pc |-> "poll", row |-> NoRow, sent_id |-> 0]

NoRun ==
    [id |-> 0, sender |-> "none", is_group |-> FALSE, ignored |-> FALSE,
     marker_lookup |-> "none", enqueued |-> 0, reached_ai |-> FALSE,
     classified_respond |-> FALSE, should_respond |-> FALSE, decided |-> "none", action |-> "none",
     approval |-> 0, notified |-> FALSE, replied |-> FALSE]

(***************************************************************************)
(* outgoing_worker                                                         *)
(***************************************************************************)
\* the targets of a broadcast: group_languages without the source language
BroadcastTargets(langs, source) == SelectSeq(langs, LAMBDA l : l # source)

\* the rows of one broadcast loop: target i is inserted when ins[i] holds;
\* trOk tells whether the translation service answers during the loop
BroadcastRows(cols, firstId, ins, trOk, targets, user_id, text, chat_id, topic_id) ==
    LET RECURSIVE build(_, _)
        build(i, id) ==
            IF i > Len(targets) THEN <<>>
            ELSE IF ins[i]
            THEN <<QueueMessageRow(cols, id, user_id,
                       BroadcastMessage(LangName(targets[i]),
                                        Translate(trOk, text, targets[i])),
                       chat_id, topic_id, targets[i], "translation", "bot", TRUE)>>
                 \o build(i + 1, id + 1)
            ELSE build(i + 1, id)
    IN  build(1, firstId)

Flags == [1..2 -> BOOLEAN]

\* lines 357-394, 416-421, 474: dequeue the oldest row and start transmitting
\* it; a failed send is caught and the row deleted (line 483); a failing
\* delete_outgoing raises into the outer handler and the row stays queued
WorkerDequeue ==
    /\ worker.pc = "poll"
    /\ queue # <<>>
    /\ LET row == GetNextOutgoing(columns, queue)
           via == Transmitter(row)
       IN  \E sendOk \in BOOLEAN, delOk \in BOOLEAN :
             IF via # "none" /\ sendOk
             THEN /\ delOk
                  /\ Inject(0)
                  /\ nextMsgId <= MaxMsgs
                  /\ nextMsgId' = nextMsgId + 1
                  /\ sent' = sent \cup {Transmission(via, "job", row)}
                  /\ inbox' = inbox \cup
                        {Event(nextMsgId, IF via = "bot" THEN "bot" ELSE "you",
                               IF via = "bot" THEN "bot" ELSE "me", row.is_group /\ row.chat_id # "none",
                               IF row.is_group /\ row.chat_id # "none"
                               THEN row.chat_id ELSE "none",
                               row.message)}
                  /\ worker' = [pc |-> IF via = "bot" THEN "bot_sending"
                                       ELSE IF row.is_group /\ row.chat_id # "none"
                                       THEN "user_sending" ELSE "dm_sending",
                                row |-> row, sent_id |-> nextMsgId]
                  /\ UNCHANGED queue
             ELSE /\ via = "none" => sendOk
                  /\ Inject(Failed(sendOk) + Failed(delOk))
                  /\ queue' = IF delOk THEN DeleteOutgoing(queue, row.id) ELSE queue
                  /\ UNCHANGED <<nextMsgId, sent, inbox, worker>>
    /\ UNCHANGED <<configVars, nextRowId, approvals, nextToken, corrections,
                   markers, lastRun, dashVars, decideVars, runs, prefVars, stamp, translatorVars>>

\* lines 396-406: back from the bot's send, write the marker (a failed write
\* is swallowed by track_bot_translation_message) and sleep
WorkerTrack ==
    /\ worker.pc = "bot_sending"
    /\ \E trackOk \in BOOLEAN :
          /\ Inject(Failed(trackOk))
          /\ markers' = IF trackOk THEN markers \cup {worker.sent_id} ELSE markers
    /\ worker' = [worker EXCEPT !.pc = "bot_tracked"]
    /\ UNCHANGED <<configVars, queue, nextRowId, approvals, nextToken, corrections,
                   inbox, nextMsgId, sent, lastRun, dashVars, decideVars, runs, prefVars, stamp, translatorVars>>

\* lines 424-471, 477: back from the operator's send to a group, queue the
\* translations of an approved reply, then delete the row
WorkerBroadcast ==
    /\ worker.pc = "user_sending"
    /\ LET row == worker.row
           source == IF row.target_language # "none" THEN row.target_language
                     ELSE YOUR_LANGUAGE
           targets == IF row.message_category = "response"
                      THEN BroadcastTargets(group_languages, source) ELSE <<>>
       IN  \E ins \in Flags, trOk \in BOOLEAN, delOk \in BOOLEAN :
             LET rows == BroadcastRows(columns, nextRowId, ins, trOk, targets,
                                       row.user_id, row.message, row.chat_id,
                                       row.topic_id)
                 after == queue \o rows
             IN  /\ \A i \in 1..2 : i > Len(targets) => ins[i]
                 /\ targets = <<>> => trOk
                 /\ Inject(Failed(ins[1]) + Failed(ins[2]) + Failed(trOk)
                           + Failed(delOk))
                 /\ nextRowId + Len(rows) <= MaxRows + 1
                 /\ nextRowId' = nextRowId + Len(rows)
                 /\ queue' = IF delOk THEN DeleteOutgoing(after, row.id) ELSE after
    /\ worker' = IdleWorker
    /\ UNCHANGED <<configVars, approvals, nextToken, corrections, markers, inbox,
                   nextMsgId, sent, lastRun, dashVars, decideVars, runs, prefVars, stamp, translatorVars>>

WorkerDelete_BeforeTrack ==
    /\ worker.pc \in {"bot_sending", "bot_tracked", "dm_sending"}
    /\ \E delOk \in BOOLEAN :
          /\ Inject(Failed(delOk))
          /\ queue' = IF delOk THEN DeleteOutgoing(queue, worker.row.id) ELSE queue
    /\ worker' = IdleWorker
    /\ UNCHANGED <<configVars, nextRowId, approvals, nextToken, corrections,
                   markers, inbox, nextMsgId, sent, lastRun, dashVars, decideVars, runs, prefVars, stamp,
                   translatorVars>>

\* line 477 after a bot translation or a DM: delete the row
WorkerDelete ==
    /\ worker.pc \in {"bot_tracked", "dm_sending"}
    /\ \E delOk \in BOOLEAN :
          /\ Inject(Failed(delOk))
          /\ queue' = IF delOk THEN DeleteOutgoing(queue, worker.row.id) ELSE queue
    /\ worker' = IdleWorker
    /\ UNCHANGED <<configVars, nextRowId, approvals, nextToken, corrections,
                   markers, inbox, nextMsgId, sent, lastRun, dashVars, decideVars, runs, prefVars, stamp, translatorVars>>

OutgoingWorker == WorkerDequeue \/ WorkerTrack \/ WorkerBroadcast \/ WorkerDelete

(***************************************************************************)
(* handle_incoming_message                                                 *)
(***************************************************************************)
\* a row of pending_approvals (lines 712-723)
Approval(e, incoming_msg, ai_suggestion, source_language) ==
    [user_id |-> e.user_id, incoming_msg |-> incoming_msg,
     ai_suggestion |-> ai_suggestion, is_group |-> e.is_group,
     chat_id |-> e.chat_id, topic_id |-> "none",
     source_language |-> source_language]

\* One run of handle_incoming_message for event e; free is the id the
\* platform gives to the next message posted.
\*   source   the code detect_language reports
\*   trOk     whether the translation service answers during this run
\*   failAt   the store write of this run that raises (0: none); the writes are
\*            the side pipeline's inserts, then the approval insert
\*   sendOk   whether the handler's own send_message succeeds
\*   res      the result of ai_handler.process_message
HandleIncomingMessage(e, free) ==
    \E source \in DETECTED_LANGUAGES, trOk \in BOOLEAN,
       failAt \in 0..3, sendOk \in BOOLEAN,
       res \in ProcessMessageResults[autoReply, e.is_group] :
      LET no_text == e.text.body = ""
          by_pattern == e.sender = "bot" /\ MatchesTranslationPattern(e.text)
          looked_up == ~no_text /\ e.sender = "bot" /\ ~by_pattern
          by_marker == looked_up /\ e.id \in markers
          ignored == no_text \/ by_pattern \/ by_marker
          translated_for_you ==
              IF source # YOUR_LANGUAGE THEN Translate(trOk, e.text, YOUR_LANGUAGE)
              ELSE e.text
          targets == IF ~ignored /\ e.is_group
                     THEN BroadcastTargets(group_languages, source) ELSE <<>>
          aborted == failAt \in 1..Len(targets)
          ins == [i \in 1..2 |-> ~aborted \/ i < failAt]
          rows == BroadcastRows(columns, nextRowId, ins, trOk, targets, e.user_id,
                                e.text, e.chat_id, "none")
          reached_ai == ~ignored /\ ~aborted /\ e.user_id # YOUR_USER_ID
          respond == reached_ai /\ ~(e.is_group /\ ~res.should_respond)
          auto == respond /\ res.action = "auto_send" /\ autoReply
          approve == respond /\ ~auto /\ res.action # "skip"
          stored == approve /\ failAt # Len(targets) + 1
          posts == (auto \/ stored) /\ sendOk
          suggestion == Text("", res.ai_suggestion, "orig")
          response == IF source # YOUR_LANGUAGE
                      THEN Translate(trOk, suggestion, source) ELSE suggestion
          translates == source # YOUR_LANGUAGE \/ targets # <<>>
          writes == Len(targets) + (IF approve THEN 1 ELSE 0)
      IN  /\ ~translates => trOk
          /\ failAt <= writes
          /\ ~(auto \/ stored) => sendOk
          /\ Inject(Failed(trOk) + Failed(failAt = 0) + Failed(sendOk))
          /\ nextRowId + Len(rows) <= MaxRows + 1
          /\ stored => nextToken <= MaxTokens
          /\ posts => free <= MaxMsgs
          /\ queue' = queue \o rows
          /\ nextRowId' = nextRowId + Len(rows)
          /\ approvals' =
               IF stored
               THEN [t \in DOMAIN approvals \cup {nextToken} |->
                        IF t = nextToken
                        THEN Approval(e, translated_for_you, suggestion, source)
                        ELSE approvals[t]]
               ELSE approvals
          /\ nextToken' = IF stored THEN nextToken + 1 ELSE nextToken
          /\ nextMsgId' = IF posts THEN free + 1 ELSE free
          /\ sent' =
               IF posts
               THEN sent \cup {Transmission("user",
                                  IF auto THEN "auto_reply" ELSE "notification",
                                  [NoRow EXCEPT !.is_group = auto /\ e.is_group,
                                                !.chat_id = IF auto THEN e.chat_id
                                                            ELSE "none"])}
               ELSE sent
          /\ inbox' = (inbox \ {e}) \cup
               (IF posts
                THEN {Event(free, "you", "me", auto /\ e.is_group,
                            IF auto THEN e.chat_id ELSE "none",
                            IF auto THEN response
                            ELSE Text("", "notification", "orig"))}
                ELSE {})
          /\ lastRun' =
               [id |-> e.id, sender |-> e.sender, is_group |-> e.is_group,
                ignored |-> ignored,
                marker_lookup |-> IF ~looked_up THEN "none"
                                  ELSE IF by_marker THEN "hit" ELSE "miss",
                enqueued |-> Len(rows), reached_ai |-> reached_ai,
                classified_respond |-> reached_ai /\ res.classified_respond,
                should_respond |-> reached_ai /\ res.should_respond,
                decided |-> IF reached_ai THEN res.decided ELSE "none",
                action |-> IF reached_ai THEN res.action ELSE "none",
                approval |-> IF stored THEN nextToken ELSE 0,
                notified |-> stored /\ sendOk,
                replied |-> auto /\ sendOk]
          /\ UNCHANGED <<configVars, corrections, markers, worker, dashVars,
                         decideVars, runs, prefVars, stamp, translatorVars>>

\* another user posts a text message in a DM or in a group, or the operator
\* types one in a group, and the handler runs for it
ReceiveMessage ==
    /\ nextMsgId <= MaxMsgs
    /\ \E sender \in {"other", "you"}, is_group \in BOOLEAN :
        /\ sender = "you" => is_group
        /\ HandleIncomingMessage(
               Event(nextMsgId, sender, IF sender = "you" THEN "me" ELSE "u1",
                     is_group, IF is_group THEN "c1" ELSE "none",
                     Text("", "msg", "orig")),
               nextMsgId + 1)

\* the handler runs for the oldest message that the two identities posted
\* themselves (events arrive in the order of the message ids)
ReceiveOwn ==
    /\ inbox # {}
    /\ HandleIncomingMessage(
          CHOOSE e \in inbox : \A o \in inbox : e.id <= o.id, nextMsgId)

(***************************************************************************)
(* dashboard_groups.py: the approval dashboard, one request per thread.    *)
(***************************************************************************)
\* bodies of an edit request; Strip is str.strip() on them
RAW_MESSAGES == {"", " ", "fix", " fix "}

Strip(raw) == IF raw \in {"", " "} THEN "" ELSE "fix"

NoApproval ==
    [user_id |-> "none", incoming_msg |-> NoText, ai_suggestion |-> NoText,
     is_group |-> FALSE, chat_id |-> "none", topic_id |-> "none",
     source_language |-> "none"]

\* a request in flight: its position, the approval it read, the text it sends
IdleThread ==
    [pc |-> "idle", op |-> "none", token |-> 0, data |-> NoApproval,
     raw |-> "", message |-> NoText, job |-> NoRow, corrected |-> 0]

\* the response to a request, with what the request did before answering
Response(req, result) ==
    [op |-> req.op, token |-> req.token, data |-> req.data, raw |-> req.raw,
     job |-> req.job, corrected |-> req.corrected, result |-> result]

NoResponse == Response(IdleThread, "none")

\* queue_telegram_message: the row it inserts under the given columns
QueueTelegramMessageRow(cols, id, user_id, message, is_group, chat_id, topic_id, target_language) ==
    IF "sender_type" \in cols /\ "message_category" \in cols
    THEN Row(id, user_id, message, is_group, chat_id, topic_id, target_language,
             "user", "response")
    ELSE IF "sender_type" \in cols
    THEN Row(id, user_id, message, is_group, chat_id, topic_id, target_language,
             "user", "response")
    ELSE Row(id, user_id, message, is_group, chat_id, topic_id, target_language,
             "user", "response")

\* the row send_message / edit_message queue for an approval (lines 248-264,
\* 324-338): group and topic for a group approval, the user alone for a DM
DashboardRow(cols, id, data, message) ==
    IF data.is_group
    THEN QueueTelegramMessageRow(cols, id, data.user_id, message, TRUE,
                                 data.chat_id, data.topic_id, data.source_language)
    ELSE QueueTelegramMessageRow(cols, id, data.user_id, message, FALSE,
                                 "none", "none", data.source_language)

\* delete_pending_approval: DELETE FROM pending_approvals WHERE token = ?
DeletePendingApproval(table, token) ==
    [t \in DOMAIN table \ {token} |-> table[t]]

\* store_correction: the row it appends
Correction(data, your_edit) ==
    [user_id |-> data.user_id, incoming_msg |-> data.incoming_msg,
     ai_suggestion |-> data.ai_suggestion, your_edit |-> your_edit]

\* variant of SkipResult: the result of the delete is not looked at
SkipResult_DeleteIgnored(delete_success) == "ok"

\* the response of skip_message, from the result of its delete (lines 391-402)
SkipResult(delete_success) == IF delete_success THEN "ok" ELSE "failed"

\* the response of send_message / edit_message once the job is queued: the
\* result of delete_pending_approval is not looked at (lines 279, 353)
SendResult(delete_success) == "ok"

\* variant of GetPendingApproval: a token with no row is answered with a
\* row read earlier
GetPendingApproval_StaleRow(table, token, readOk) ==
    IF readOk /\ token \in DOMAIN table THEN table[token]
    ELSE [NoApproval EXCEPT !.user_id = "u1"]

\* get_pending_approval: the row of the token, None (NoApproval here) when
\* there is none or when the read raised
GetPendingApproval(table, token, readOk) ==
    IF readOk /\ token \in DOMAIN table THEN table[token] ELSE NoApproval

\* tokens a request may carry: those stored at the start and one never stored
REQUEST_TOKENS == 1..(MaxApprovals + 1)

\* lines 237-240, 309-316, 383-386, 410-417: a request arrives on a free
\* thread and reads its approval; a failed read counts as a missing token.
\* translate_suggestion answers at once: it changes nothing in the store.
DashRequest(t) ==
    /\ thr[t].pc = "idle"
    /\ requests < MaxRequests
    /\ requests' = requests + 1
    /\ \E op \in {"approve", "edit", "skip", "translate"}, token \in REQUEST_TOKENS,
          raw \in RAW_MESSAGES, readOk \in BOOLEAN, has_translator \in BOOLEAN :
         LET data == GetPendingApproval(approvals, token, readOk)
             found == data # NoApproval
             message == IF op = "edit" THEN Text("", Strip(raw), "orig")
                        ELSE data.ai_suggestion
             req == [IdleThread EXCEPT !.op = op, !.token = token,
                                       !.raw = IF op = "edit" THEN raw ELSE ""]
         IN  /\ op # "edit" => raw = ""
             /\ (op # "translate" \/ ~found) => has_translator
             /\ Inject(Failed(readOk))
             /\ IF ~found
                THEN /\ lastResponse' = Response(req, "invalid")
                     /\ UNCHANGED thr
                ELSE IF op = "edit" /\ Strip(raw) = ""
                THEN /\ lastResponse' = Response(req, "empty")
                     /\ UNCHANGED thr
                ELSE IF op = "translate"
                THEN /\ lastResponse' =
                            Response([req EXCEPT !.data = data],
                                     IF has_translator THEN "ok" ELSE "no_translator")
                     /\ UNCHANGED thr
                ELSE /\ thr' = [thr EXCEPT ![t] =
                            [req EXCEPT !.pc = IF op = "skip" THEN "delete"
                                              ELSE "queue",
                                        !.data = data, !.message = message]]
                     /\ UNCHANGED lastResponse
    /\ UNCHANGED <<configVars, queue, nextRowId, approvals, nextToken, corrections,
                   botVars, enqueuedFor, decideVars, runs, prefVars, stamp, translatorVars>>

\* lines 248-264, 324-338: queue the reply; a failed insert ends the request
DashQueue(t) ==
    /\ thr[t].pc = "queue"
    /\ \E ok \in BOOLEAN :
         /\ Inject(Failed(ok))
         /\ IF ok
            THEN LET row == DashboardRow(columns, nextRowId, thr[t].data,
                                         thr[t].message)
                 IN  /\ nextRowId <= MaxRows
                     /\ queue' = Append(queue, row)
                     /\ nextRowId' = nextRowId + 1
                     /\ enqueuedFor' = [enqueuedFor EXCEPT ![thr[t].token] = @ + 1]
                     /\ thr' = [thr EXCEPT ![t].job = row,
                                           ![t].pc = IF thr[t].op = "edit"
                                                     THEN "correct" ELSE "delete"]
                     /\ UNCHANGED lastResponse
            ELSE /\ thr' = [thr EXCEPT ![t] = IdleThread]
                 /\ lastResponse' = Response(thr[t], "queue_failed")
                 /\ UNCHANGED <<queue, nextRowId, enqueuedFor>>
    /\ UNCHANGED <<configVars, approvals, nextToken, corrections, botVars, requests,
                   decideVars, runs, prefVars, stamp, translatorVars>>

StoreCorrection_ReplaceLast(table, data, your_edit) ==
    IF table = <<>> THEN <<Correction(data, your_edit)>>
    ELSE [table EXCEPT ![Len(table)] = Correction(data, your_edit)]

\* store_correction (lines 125-147): INSERT INTO message_corrections
StoreCorrection(table, data, your_edit) == Append(table, Correction(data, your_edit))

\* lines 344-351: store the correction; its result is not looked at
DashCorrect(t) ==
    /\ thr[t].pc = "correct"
    /\ \E ok \in BOOLEAN :
         /\ Inject(Failed(ok))
         /\ corrections' = IF ok
                           THEN StoreCorrection(corrections, thr[t].data,
                                                thr[t].message)
                           ELSE corrections
         /\ thr' = [thr EXCEPT ![t].pc = "delete",
                               ![t].corrected = IF ok THEN 1 ELSE 0]
    /\ UNCHANGED <<configVars, queue, nextRowId, approvals, nextToken, botVars,
                   requests, enqueuedFor, lastResponse, decideVars, runs, prefVars, stamp, translatorVars>>

\* lines 279, 353, 389: delete the approval and answer
DashDelete(t) ==
    /\ thr[t].pc = "delete"
    /\ \E ok \in BOOLEAN :
         /\ Inject(Failed(ok))
         /\ approvals' = IF ok THEN DeletePendingApproval(approvals, thr[t].token)
                         ELSE approvals
         /\ lastResponse' = Response(thr[t], IF thr[t].op = "skip" THEN SkipResult(ok)
                                         ELSE SendResult(ok))
    /\ thr' = [thr EXCEPT ![t] = IdleThread]
    /\ UNCHANGED <<configVars, queue, nextRowId, nextToken, corrections, botVars,
                   requests, enqueuedFor, decideVars, runs, prefVars, stamp, translatorVars>>

Dashboard == \E t \in Threads : DashRequest(t) \/ DashQueue(t) \/ DashCorrect(t) \/ DashDelete(t)

\* send_message run from request to response with no other request in
\* between (lines 237-291): the operator approves a pending reply
SendMessage ==
    \E token \in DOMAIN approvals, delOk \in BOOLEAN :
      LET data == approvals[token]
          row == DashboardRow(columns, nextRowId, data, data.ai_suggestion)
      IN  /\ nextRowId <= MaxRows
          /\ Inject(Failed(delOk))
          /\ queue' = Append(queue, row)
          /\ nextRowId' = nextRowId + 1
          /\ approvals' = IF delOk THEN DeletePendingApproval(approvals, token)
                          ELSE approvals
          /\ enqueuedFor' = [enqueuedFor EXCEPT ![token] = @ + 1]
          /\ UNCHANGED <<configVars, nextToken, corrections, botVars, thr,
                         requests, lastResponse, decideVars, runs, prefVars, stamp, translatorVars>>

(***************************************************************************)
(* The decision tables on every input.                                     *)
(***************************************************************************)
DecideInputs ==
    [msg_type : MESSAGE_TYPES, urgency : URGENCY_LEVELS, confidence : 0..MaxConfidence,
     bot_mentioned : BOOLEAN, action : REPLY_ACTIONS, escalate_to : ESCALATE_TARGETS]

NoInput ==
    [msg_type |-> "unknown", urgency |-> "medium", confidence |-> 0,
     bot_mentioned |-> FALSE, action |-> "queue_approval", escalate_to |-> "null"]

NoDecision == Decision("none", "absent", FALSE)
NoOutput == [integrated |-> NoDecision, group |-> NoDecision, dm |-> NoDecision]

Decide ==
    /\ dout = NoOutput
    /\ dout' = [integrated |-> IntegratedDecideAction(autoReply, din.msg_type,
                                   din.confidence, din.action, din.escalate_to),
                group |-> DecideGroupAction(autoReply, din.msg_type, din.urgency,
                                            din.confidence, din.bot_mentioned),
                dm |-> DecideAction(autoReply, din.msg_type, din.confidence)]
    /\ UNCHANGED <<configVars, queue, nextRowId, approvals, nextToken, corrections,
                   botVars, dashVars, faults, din, pin, pout, stamp, translatorVars,
                   runs, prefVars>>

(***************************************************************************)
(* The analysis pipeline of process_message on every input: classify,     *)
(* resolve the context, generate the reply, decide.                        *)
(***************************************************************************)
\* the entities a classification carries, by what the store has for them: a
\* customer or project name (none, one the store finds, one it does not) and
\* a date (none, one with schedule entries, one without)
ENTITIES == [project : {"none", "found", "not_found"},
             date : {"none", "scheduled", "free"}]

\* 'entities': {} of the fallback classifications
NO_ENTITIES == [project |-> "none", date |-> "none"]

\* variant of QueryContext: a project is resolved for every message
QueryContext_ProjectAlwaysFound(entities) ==
    [empty |-> FALSE, project |-> TRUE, schedule |-> entities.date = "scheduled"]

\* MockDatabase.query_context: the dict is never empty, the 'note' entry is
\* stored when nothing was found
QueryContext(entities) ==
    [empty |-> FALSE, project |-> entities.project = "found",
     schedule |-> entities.date = "scheduled"]

\* the inputs of one run; a fallback classification carries no entities, and
\* a group message that is not to be answered gets no lookup and no draft,
\* so its run has no entities and no answer to read
PipelineInputs ==
    LET answers == MODEL_REPLIES \cup {FALLBACK_REPLY}
    IN  [is_group : {TRUE},
         cls : {c \in GROUP_CLASSIFICATIONS : c.should_respond},
         entities : ENTITIES, answer : answers]
        \cup
        [is_group : {TRUE},
         cls : {c \in GROUP_CLASSIFICATIONS : ~c.should_respond}
               \cup {GROUP_FALLBACK_CLASSIFICATION},
         entities : {NO_ENTITIES}, answer : {FALLBACK_REPLY}]
        \cup
        [is_group : {FALSE}, cls : DM_CLASSIFICATIONS,
         entities : ENTITIES, answer : answers]
        \cup
        [is_group : {FALSE}, cls : {DM_FALLBACK_CLASSIFICATION},
         entities : {NO_ENTITIES}, answer : answers]

NoPipelineInput ==
    [is_group |-> FALSE, cls |-> DM_FALLBACK_CLASSIFICATION, entities |-> NO_ENTITIES,
     answer |-> FALLBACK_REPLY]

NoReply == [reply |-> "none", confidence |-> 0, action |-> "none", escalate_to |-> "null"]

NoPipelineOutput == [generated |-> FALSE, reply |-> NoReply, action |-> "none"]

\* process_message: _process_group_message or _process_dm on the input; the
\* reply data is what generate_reply handed to the decision
ProcessMessage ==
    /\ pout = NoPipelineOutput
    /\ LET ctx == QueryContext(pin.entities)
           result == IF pin.is_group
                     THEN ProcessGroupMessage(autoReply, pin.cls, ctx, pin.answer)
                     ELSE ProcessDm(autoReply, pin.cls, ctx, pin.answer)
           generated == result.decided # "none"
       IN  pout' = [generated |-> generated,
                    reply |-> IF generated
                              THEN GenerateReply(pin.answer, ctx, pin.cls.message_type)
                              ELSE NoReply,
                    action |-> result.action]
    /\ UNCHANGED <<configVars, queue, nextRowId, approvals, nextToken, corrections,
                   botVars, dashVars, faults, din, dout, pin, stamp, translatorVars,
                   runs, prefVars>>

(***************************************************************************)
(* OpenAITranslator.translate and its cache, table translation_cache.      *)
(***************************************************************************)
MaxCache == 2

\* the texts translated: the empty text and a text of three characters or more
TEXTS == {"", "hello"}
TRANSLATOR_LANGUAGES == {"en", "pl"}
SOURCE_LANGUAGES == TRANSLATOR_LANGUAGES \cup {"auto"}
\* what the external service may answer for one request (temperature 0.3)
SERVICE_ANSWERS == {"answer_a", "answer_b"}

CacheKeys == (TEXTS \ {""}) \X TRANSLATOR_LANGUAGES

\* a row of translation_cache
CacheRow(original_text, source_lang, target_lang, translated_text) ==
    [original_text |-> original_text, source_lang |-> source_lang,
     target_lang |-> target_lang, translated_text |-> translated_text]

\* the dictionary translate returns
TranslateResult(translated_text, source_lang, target_lang, original_text, from_cache, error) ==
    [translated_text |-> translated_text, source_lang |-> source_lang,
     target_lang |-> target_lang, original_text |-> original_text,
     from_cache |-> from_cache, error |-> error]

\* _get_from_cache: the newest row for (text, target_lang), as a sequence of
\* at most one result; a failed read is swallowed and gives none
GetFromCache(c, text, target_lang, readOk) ==
    LET hits == SelectSeq(c, LAMBDA r : r.original_text = text
                                        /\ r.target_lang = target_lang)
    IN  IF readOk /\ hits # <<>>
        THEN <<TranslateResult(hits[Len(hits)].translated_text,
                               hits[Len(hits)].source_lang, target_lang, text,
                               TRUE, FALSE)>>
        ELSE <<>>

\* _save_to_cache: insert one row; a failed write is swallowed
SaveToCache(c, original, source_lang, target_lang, translated, saveOk) ==
    IF saveOk THEN Append(c, CacheRow(original, source_lang, target_lang, translated))
    ELSE c

\* what one call did: its result, the cache after it, and the steps it took
Outcome(result, c, cache_read, detect, external, raised, cache_write) ==
    [result |-> result, cache |-> c, cache_read |-> cache_read, detect |-> detect,
     external |-> external, raised |-> raised, cache_write |-> cache_write]

TranslationError_CachesOriginal(c, text, target_lang, src, detect) ==
    Outcome(TranslateResult(text, src, target_lang, text, FALSE, TRUE),
            SaveToCache(c, text, src, target_lang, text, TRUE), TRUE, detect, TRUE, TRUE, TRUE)

\* lines 221-229: the external call raised
TranslationError(c, text, target_lang, src, detect) ==
    Outcome(TranslateResult(text, src, target_lang, text, FALSE, TRUE),
            c, TRUE, detect, TRUE, TRUE, FALSE)

\* translate(text, target_lang, source_lang), in the order of the code:
\*   readOk    whether the cache read succeeds
\*   detected  the code detect_language reports for source_lang 'auto'
\*   callOk    whether the external call succeeds, answer what it returns
\*   saveOk    whether the cache write succeeds
TranslateOutcome(c, text, target_lang, source_lang, readOk, detected, callOk, answer, saveOk) ==
    LET cached == GetFromCache(c, text, target_lang, readOk)
        detect == source_lang = "auto"
        src == IF detect THEN detected ELSE source_lang
    IN  IF text = ""
        THEN Outcome(TranslateResult(text, source_lang, target_lang, text, FALSE, FALSE),
                     c, FALSE, FALSE, FALSE, FALSE, FALSE)
        ELSE IF cached # <<>>
        THEN Outcome(cached[1], c, TRUE, FALSE, FALSE, FALSE, FALSE)
        ELSE IF src = target_lang
        THEN Outcome(TranslateResult(text, src, target_lang, text, FALSE, FALSE),
                     c, TRUE, detect, FALSE, FALSE, FALSE)
        ELSE IF callOk
        THEN Outcome(TranslateResult(answer, src, target_lang, text, FALSE, FALSE),
                     SaveToCache(c, text, src, target_lang, answer, saveOk),
                     TRUE, detect, TRUE, FALSE, TRUE)
        ELSE TranslationError(c, text, target_lang, src, detect)

NoCall ==
    [called |-> FALSE, text |-> "", target_lang |-> "none", source_lang |-> "none",
     src |-> "none",
     out |-> Outcome(TranslateResult("", "none", "none", "", FALSE, FALSE),
                     <<>>, FALSE, FALSE, FALSE, FALSE, FALSE)]

\* one call of translate by any of its callers
TranslateCall ==
    \E text \in TEXTS, target_lang \in TRANSLATOR_LANGUAGES,
       source_lang \in SOURCE_LANGUAGES, detected \in TRANSLATOR_LANGUAGES,
       answer \in SERVICE_ANSWERS, readOk \in BOOLEAN, callOk \in BOOLEAN,
       saveOk \in BOOLEAN :
      LET out == TranslateOutcome(translation_cache, text, target_lang, source_lang,
                                  readOk, detected, callOk, answer, saveOk)
      IN  /\ ~out.cache_read => readOk
          /\ ~out.detect => detected = "en"
          /\ ~out.external => callOk /\ answer = "answer_a"
          /\ ~out.cache_write => saveOk
          /\ Inject(Failed(readOk) + Failed(callOk) + Failed(saveOk))
          /\ Len(out.cache) <= MaxCache
          /\ translation_cache' = out.cache
          /\ lastCall' = [called |-> TRUE, text |-> text, target_lang |-> target_lang,
                          source_lang |-> source_lang, src |-> out.result.source_lang,
                          out |-> out]
          /\ obtained' = IF out.external /\ ~out.raised
                         THEN [obtained EXCEPT ![<<text, target_lang>>] = answer]
                         ELSE obtained
          /\ UNCHANGED <<configVars, queue, nextRowId, approvals, nextToken,
                         corrections, botVars, dashVars, decideVars, runs, prefVars, stamp>>

(***************************************************************************)
(* The language preferences: table user_languages (user_id PRIMARY KEY).   *)
(***************************************************************************)
USERS == {"me", "u1"}
PREFERENCE_LANGUAGES == {"en", "pl"}

LanguageRow(user_id, language) == [user_id |-> user_id, language |-> language]

SetRow_PlainInsert(table, user_id, language) ==
    Append(table, LanguageRow(user_id, language))

\* set_user_language: INSERT OR REPLACE INTO user_languages; the row of the
\* user, if any, is replaced
SetRow(table, user_id, language) ==
    Append(SelectSeq(table, LAMBDA r : r.user_id # user_id),
           LanguageRow(user_id, language))

\* get_user_language: SELECT language ... WHERE user_id = ?, fetchone; 'en'
\* when there is no row and when the read raised
GetUserLanguage(table, user_id, readOk) ==
    LET rows == SelectSeq(table, LAMBDA r : r.user_id = user_id)
    IN  IF readOk /\ rows # <<>> THEN rows[1].language ELSE "en"

NoLookup == [called |-> FALSE, user_id |-> "none", read_ok |-> TRUE,
             last_set |-> "none", result |-> "none"]

\* one call of set_user_language; a failed write is swallowed (returns False)
SetUserLanguage ==
    /\ \E u \in USERS, language \in PREFERENCE_LANGUAGES, ok \in BOOLEAN :
         /\ Inject(Failed(ok))
         /\ user_languages' = IF ok THEN SetRow(user_languages, u, language)
                              ELSE user_languages
         /\ lastSet' = IF ok THEN [lastSet EXCEPT ![u] = language] ELSE lastSet
    /\ UNCHANGED <<configVars, queue, nextRowId, approvals, nextToken, corrections,
                   botVars, dashVars, decideVars, stamp, translatorVars, runs,
                   lastLookup>>

\* one call of get_user_language
LookupUserLanguage ==
    /\ \E u \in USERS, readOk \in BOOLEAN :
         /\ Inject(Failed(readOk))
         /\ lastLookup' = [called |-> TRUE, user_id |-> u, read_ok |-> readOk,
                           last_set |-> lastSet[u],
                           result |-> GetUserLanguage(user_languages, u, readOk)]
    /\ UNCHANGED <<configVars, queue, nextRowId, approvals, nextToken, corrections,
                   botVars, dashVars, decideVars, stamp, translatorVars, runs,
                   user_languages, lastSet>>

(***************************************************************************)
(* The commands /language and /status.  Both handlers are registered on    *)
(* the operator's client with events.NewMessage(pattern=...) and nothing   *)
(* else (lines 745, 768): they run for a matching message of any sender,   *)
(* in a DM or in a group, and answer with event.reply.                     *)
(***************************************************************************)
\* the argument of /language: none, a code that is not in LANGUAGES, a code
LANGUAGE_ARGS == {"none", "xx"} \cup PREFERENCE_LANGUAGES

\* event.reply of a command handler: the operator's account posts the answer
\* in the chat of the command
CommandReply(is_group) ==
    Transmission("user", "command_reply",
                 [NoRow EXCEPT !.is_group = is_group,
                               !.chat_id = IF is_group THEN "c1" ELSE "none"])

\* what a command handler's reply changes; a failed send is caught by the
\* handler's except
PostCommandReply(is_group, sendOk) ==
    /\ sendOk => nextMsgId <= MaxMsgs
    /\ nextMsgId' = IF sendOk THEN nextMsgId + 1 ELSE nextMsgId
    /\ sent' = IF sendOk THEN sent \cup {CommandReply(is_group)} ELSE sent
    /\ inbox' = IF sendOk
                THEN inbox \cup {Event(nextMsgId, "you", "me", is_group,
                                       IF is_group THEN "c1" ELSE "none",
                                       Text("", "answer", "orig"))}
                ELSE inbox

\* set_language_command (lines 745-766)
SetLanguageCommand ==
    /\ \E sender \in {"other", "you"}, is_group \in BOOLEAN, arg \in LANGUAGE_ARGS,
          ok \in BOOLEAN, sendOk \in BOOLEAN :
         LET u == IF sender = "you" THEN "me" ELSE "u1"
             sets == arg \in PREFERENCE_LANGUAGES
         IN  /\ ~sets => ok
             /\ Inject(Failed(ok) + Failed(sendOk))
             /\ user_languages' = IF sets /\ ok THEN SetRow(user_languages, u, arg)
                                  ELSE user_languages
             /\ lastSet' = IF sets /\ ok THEN [lastSet EXCEPT ![u] = arg]
                           ELSE lastSet
             /\ PostCommandReply(is_group, sendOk)
    /\ UNCHANGED <<configVars, queue, nextRowId, approvals, nextToken, corrections,
                   markers, worker, lastRun, dashVars, decideVars, stamp,
                   translatorVars, runs, lastLookup>>

\* status_command (lines 768-796)
StatusCommand ==
    /\ \E sender \in {"other", "you"}, is_group \in BOOLEAN,
          readOk \in BOOLEAN, sendOk \in BOOLEAN :
         LET u == IF sender = "you" THEN "me" ELSE "u1"
         IN  /\ Inject(Failed(readOk) + Failed(sendOk))
             /\ lastLookup' = [called |-> TRUE, user_id |-> u, read_ok |-> readOk,
                               last_set |-> lastSet[u],
                               result |-> GetUserLanguage(user_languages, u, readOk)]
             /\ PostCommandReply(is_group, sendOk)
    /\ UNCHANGED <<configVars, queue, nextRowId, approvals, nextToken, corrections,
                   markers, worker, lastRun, dashVars, decideVars, stamp,
                   translatorVars, runs, user_languages, lastSet>>

(***************************************************************************)
(* The runs of handle_incoming_message on the event loop.  The client is   *)
(* built with its default arguments (line 36) and the handler is a         *)
(* coroutine registered with @user_client.on (493-494): each update is     *)
(* handed to the handler as a task of its own, and a task gives way to the *)
(* other tasks at each of its awaits.                                      *)
(***************************************************************************)
MaxRuns == 3

Runs == 1..MaxRuns

\* the awaits of the handler, in the order of the code
HANDLER_AWAITS == {"get_sender", "get_chat", "send_reply", "get_me", "send_notification"}

\* line 494: a run starts for an update and stops at await event.get_sender()
HandlerStart(r) ==
    /\ runs[r] = "idle"
    /\ runs' = [runs EXCEPT ![r] = "get_sender"]
    /\ UNCHANGED <<configVars, queue, nextRowId, approvals, nextToken, corrections,
                   botVars, dashVars, faults, decideVars, stamp, translatorVars,
                   prefVars>>

\* lines 510-554: back from get_sender, the filters; a run that is not
\* filtered out stops at await event.get_chat()
HandlerFilter(r) ==
    /\ runs[r] = "get_sender"
    /\ \E ignored \in BOOLEAN :
         runs' = [runs EXCEPT ![r] = IF ignored THEN "ignored" ELSE "get_chat"]
    /\ UNCHANGED <<configVars, queue, nextRowId, approvals, nextToken, corrections,
                   botVars, dashVars, faults, decideVars, stamp, translatorVars,
                   prefVars>>

\* lines 555-725: back from get_chat, the run translates, classifies,
\* resolves, generates the reply, decides and persists without an await, and
\* stops at the send of an automatic reply (697-701) or, after the approval
\* is stored, at await user_client.get_me() (727); a skip or the operator's
\* own message ends the run with nothing sent
HandlerProcess(r) ==
    /\ runs[r] = "get_chat"
    /\ \E outcome \in {"send_reply", "get_me", "no_reply"} :
         runs' = [runs EXCEPT ![r] = outcome]
    /\ UNCHANGED <<configVars, queue, nextRowId, approvals, nextToken, corrections,
                   botVars, dashVars, faults, decideVars, stamp, translatorVars,
                   prefVars>>

\* line 727-735: back from get_me, the notification is built and sent
HandlerNotify(r) ==
    /\ runs[r] = "get_me"
    /\ runs' = [runs EXCEPT ![r] = "send_notification"]
    /\ UNCHANGED <<configVars, queue, nextRowId, approvals, nextToken, corrections,
                   botVars, dashVars, faults, decideVars, stamp, translatorVars,
                   prefVars>>

\* lines 703, 736-743: back from the last send, the run ends
HandlerEnd(r) ==
    /\ runs[r] \in {"send_reply", "send_notification"}
    /\ runs' = [runs EXCEPT ![r] = "done"]
    /\ UNCHANGED <<configVars, queue, nextRowId, approvals, nextToken, corrections,
                   botVars, dashVars, faults, decideVars, stamp, translatorVars,
                   prefVars>>

Handlers ==
    \E r \in Runs : \/ HandlerStart(r)
                    \/ HandlerFilter(r)
                    \/ HandlerProcess(r)
                    \/ HandlerNotify(r)
                    \/ HandlerEnd(r)

(***************************************************************************)
(* Specifications.                                                         *)
(***************************************************************************)
\* the store as init_db creates it (lines 65-182), but for the columns of
\* outgoing_messages and the count of failures, and the bot before its first
\* event
EmptyStore ==
    /\ autoReply \in BOOLEAN
    /\ group_languages \in GROUP_LANGUAGE_CONFIGS
    /\ queue = <<>>
    /\ nextRowId = 1
    /\ approvals = <<>>
    /\ nextToken = 1
    /\ corrections = <<>>
    /\ markers = {}
    /\ inbox = {}
    /\ nextMsgId = 1
    /\ worker = IdleWorker
    /\ sent = {}
    /\ lastRun = NoRun
    /\ thr = [t \in Threads |-> IdleThread]
    /\ requests = 0
    /\ lastResponse = NoResponse
    /\ enqueuedFor = [t \in Tokens |-> 0]
    /\ stamp = 0
    /\ translation_cache = <<>>
    /\ lastCall = NoCall
    /\ obtained = [k \in CacheKeys |-> "none"]
    /\ runs = [r \in Runs |-> "idle"]
    /\ user_languages = <<LanguageRow("me", YOUR_LANGUAGE)>>
    /\ lastLookup = NoLookup
    /\ lastSet = [u \in USERS |-> IF u = "me" THEN YOUR_LANGUAGE ELSE "none"]

\* init_db on a new store: CREATE TABLE with both optional columns (112-124)
StoreInit ==
    /\ EmptyStore
    /\ columns = ALL_COLUMNS
    /\ YOUR_USER_ID = "me"
    /\ faults = 0

Init ==
    /\ StoreInit
    /\ din = NoInput
    /\ dout = NoOutput
    /\ pin = NoPipelineInput
    /\ pout = NoPipelineOutput

\* the bot process: the inbound handler and the dispatcher on one event loop
Next == ReceiveMessage \/ ReceiveOwn \/ OutgoingWorker \/ SendMessage

Spec == Init /\ [][Next]_vars

InitDecide ==
    /\ StoreInit
    /\ group_languages = <<"pl", "ru">>
    /\ din \in DecideInputs
    /\ dout = NoOutput
    /\ pin = NoPipelineInput
    /\ pout = NoPipelineOutput

SpecDecide == InitDecide /\ [][Decide]_vars

\* approvals as handle_incoming_message stores them: for a DM in the
\* operator's language, and for a group message in another language; the
\* dashboard starts with one of each kind in turn
PendingApproval(is_group) ==
    LET e == Event(1, "other", "u1", is_group, IF is_group THEN "c1" ELSE "none",
                   Text("", "msg", "orig"))
        source == IF is_group THEN "pl" ELSE YOUR_LANGUAGE
    IN  Approval(e,
                 IF source # YOUR_LANGUAGE THEN Translate(TRUE, e.text, YOUR_LANGUAGE)
                 ELSE e.text,
                 Text("", "ai_reply", "orig"), source)

\* the dashboard process alone, started on a store with pending approvals
InitDash ==
    /\ autoReply = FALSE
    /\ YOUR_USER_ID = "me"
    /\ group_languages = <<"pl", "ru">>
    /\ columns = ALL_COLUMNS
    /\ queue = <<>>
    /\ nextRowId = 1
    /\ approvals = [k \in 1..MaxApprovals |-> PendingApproval(k % 2 = 0)]
    /\ nextToken = MaxApprovals + 1
    /\ corrections = <<>>
    /\ markers = {}
    /\ inbox = {}
    /\ nextMsgId = 1
    /\ worker = IdleWorker
    /\ sent = {}
    /\ lastRun = NoRun
    /\ thr = [t \in Threads |-> IdleThread]
    /\ requests = 0
    /\ lastResponse = NoResponse
    /\ enqueuedFor = [t \in Tokens |-> 0]
    /\ faults = 0
    /\ stamp = 0
    /\ translation_cache = <<>>
    /\ lastCall = NoCall
    /\ obtained = [k \in CacheKeys |-> "none"]
    /\ runs = [r \in Runs |-> "idle"]
    /\ user_languages = <<LanguageRow("me", YOUR_LANGUAGE)>>
    /\ lastLookup = NoLookup
    /\ lastSet = [u \in USERS |-> IF u = "me" THEN YOUR_LANGUAGE ELSE "none"]
    /\ din = NoInput
    /\ dout = NoOutput
    /\ pin = NoPipelineInput
    /\ pout = NoPipelineOutput

\* the analysis pipeline alone, on every classification, every lookup result
\* and every answer of the model
InitPipeline ==
    /\ StoreInit
    /\ group_languages = <<"pl", "ru">>
    /\ din = NoInput
    /\ dout = NoOutput
    /\ pin \in PipelineInputs
    /\ pout = NoPipelineOutput

SpecPipeline == InitPipeline /\ [][ProcessMessage]_vars

SpecDash == InitDash /\ [][Dashboard]_vars

\* telegram_bot_groups.queue_message called by a producer with any category
\* and any sender its signature admits
QueueMessage ==
    /\ nextRowId <= MaxRows
    /\ \E message_category \in {"translation", "response", "notification"},
          sender_type \in {"user", "bot"}, is_group \in BOOLEAN :
         queue' = Append(queue,
                    QueueMessageRow(columns, nextRowId, "u1", Text("", "msg", "orig"),
                                    IF is_group THEN "c1" ELSE "none", "none", "pl",
                                    message_category, sender_type, is_group))
    /\ nextRowId' = nextRowId + 1
    /\ UNCHANGED <<configVars, approvals, nextToken, corrections, botVars, dashVars,
                   faults, decideVars, runs, prefVars, stamp, translatorVars>>

\* the dispatcher alone, fed with every row queue_message can store
NextDispatch == QueueMessage \/ OutgoingWorker

SpecDispatch == Init /\ [][NextDispatch]_vars

\* the translator alone, called by any of its callers on a store that may fail
SpecTranslate == Init /\ [][TranslateCall]_vars

\* the runs of the inbound handler as the event loop schedules them
SpecHandlers == Init /\ [][Handlers]_vars

\* the language preferences alone, set and read by any caller
NextPreferences == SetUserLanguage \/ LookupUserLanguage

SpecPreferences == Init /\ [][NextPreferences]_vars

\* init_db on a store whose outgoing_messages table was created without the
\* optional columns: CREATE TABLE IF NOT EXISTS leaves the table as it is, and
\* each of the two ALTER TABLE ... ADD COLUMN adds its column unless it raises,
\* which init_db swallows (lines 127-138); every failed ALTER is one failure
InitSchema ==
    /\ EmptyStore
    /\ columns \in SUBSET ALL_COLUMNS
    /\ YOUR_USER_ID = "me"
    /\ faults = Cardinality(ALL_COLUMNS \ columns)
    /\ din = NoInput
    /\ dout = NoOutput
    /\ pin = NoPipelineInput
    /\ pout = NoPipelineOutput

\* telegram_sender_queue.queue_message: INSERT (user_id, message, created_at);
\* every other column takes its default; a failed insert returns False
SenderQueueMessage ==
    /\ \E ok \in BOOLEAN :
         /\ Inject(Failed(ok))
         /\ ok => nextRowId <= MaxRows
         /\ queue' = IF ok
                     THEN Append(queue,
                            Row(nextRowId, "u1", Text("", "msg", "orig"), FALSE,
                                "none", "none", "none", "user", "response"))
                     ELSE queue
         /\ nextRowId' = IF ok THEN nextRowId + 1 ELSE nextRowId
    /\ UNCHANGED <<configVars, approvals, nextToken, corrections, botVars, dashVars,
                   decideVars, runs, prefVars, stamp, translatorVars>>

\* every producer of outgoing_messages and the dispatcher, on a store with any
\* of the schemas init_db can leave
NextSchema == ReceiveMessage \/ ReceiveOwn \/ OutgoingWorker \/ SendMessage \/ SenderQueueMessage

SpecSchema == InitSchema /\ [][NextSchema]_vars

\* main between the start of the operator's client and the assignment of
\* YOUR_USER_ID (lines 813-816): the client is connected, the handlers are
\* registered since the import of the module (494), and the global is still
\* None (31)
InitStartup ==
    /\ EmptyStore
    /\ columns = ALL_COLUMNS
    /\ YOUR_USER_ID = "None"
    /\ faults = 0
    /\ din = NoInput
    /\ dout = NoOutput
    /\ pin = NoPipelineInput
    /\ pout = NoPipelineOutput

\* main, lines 815-817: back from await user_client.get_me(), assign
\* YOUR_USER_ID and store the operator's language (a failed write is swallowed)
MainGetMe ==
    /\ YOUR_USER_ID = "None"
    /\ YOUR_USER_ID' = "me"
    /\ \E ok \in BOOLEAN :
         /\ Inject(Failed(ok))
         /\ user_languages' = IF ok THEN SetRow(user_languages, "me", YOUR_LANGUAGE)
                              ELSE user_languages
         /\ lastSet' = IF ok THEN [lastSet EXCEPT !["me"] = YOUR_LANGUAGE] ELSE lastSet
    /\ UNCHANGED <<autoReply, group_languages, columns, queue, nextRowId, approvals,
                   nextToken, corrections, botVars, dashVars, decideVars, stamp,
                   translatorVars, runs, lastLookup>>

\* the operator's client from its start on: the handler runs for the events
\* that arrive while main awaits get_me, and after it
NextStartup == MainGetMe \/ ReceiveMessage \/ ReceiveOwn

SpecStartup == InitStartup /\ [][NextStartup]_vars

\* the dispatcher fed by the dashboard's approve, started on a store with
\* pending approvals
NextReplies == SendMessage \/ OutgoingWorker

SpecReplies == InitDash /\ [][NextReplies]_vars

\* the command handlers alone, for commands of any sender
NextCommands == SetLanguageCommand \/ StatusCommand

SpecCommands == Init /\ [][NextCommands]_vars

\* dashboard_groups.queue_telegram_message up to the INSERT (lines 167-182):
\* the parameters of the statement are built, created_at = datetime.now()
\* among them, and the statement then waits for the write lock
DashboardStamp ==
    /\ stamp = 0
    /\ nextRowId <= MaxRows
    /\ stamp' = nextRowId
    /\ UNCHANGED <<configVars, queue, nextRowId, approvals, nextToken, corrections,
                   botVars, dashVars, faults, decideVars, runs, prefVars, translatorVars>>

\* the INSERT runs and commits (lines 182-197): the row takes the next id,
\* and ORDER BY created_at puts it in front of the rows the bot inserted
\* while the statement waited
DashboardInsert ==
    /\ stamp # 0
    /\ nextRowId <= MaxRows
    /\ \E is_group \in BOOLEAN :
         LET data == PendingApproval(is_group)
             row == DashboardRow(columns, nextRowId, data, data.ai_suggestion)
             older == SelectSeq(queue, LAMBDA r : r.id < stamp)
             newer == SelectSeq(queue, LAMBDA r : r.id >= stamp)
         IN  queue' = older \o <<row>> \o newer
    /\ nextRowId' = nextRowId + 1
    /\ stamp' = 0
    /\ UNCHANGED <<configVars, approvals, nextToken, corrections, botVars, dashVars,
                   faults, decideVars, runs, prefVars, translatorVars>>

\* the dispatcher fed by the bot process and by the dashboard process
NextOrder == QueueMessage \/ DashboardStamp \/ DashboardInsert \/ OutgoingWorker

SpecOrder == Init /\ [][NextOrder]_vars

(***************************************************************************)
(* Properties of the decision tables (SpecDecide).                         *)
(***************************************************************************)
Decided == dout # NoOutput

AllQueueApproval ==
    /\ dout.integrated.action = "queue_approval"
    /\ dout.group.action = "queue_approval"
    /\ dout.dm.action = "queue_approval"

\* C1: with auto-reply disabled the three decision tables return
\* queue_approval for every message type, urgency, confidence 0..100,
\* mention flag, draft action and escalation target.
C1_SafeModeQueuesEverything ==
    (Decided /\ ~autoReply) => AllQueueApproval

\* the tables have decided, auto-reply disabled, on the input most in favour
\* of an automatic reply: a mentioned bot, confidence 100, a safe type
C1_Witness ==
    /\ Decided
    /\ ~autoReply
    /\ din.confidence = MaxConfidence
    /\ din.bot_mentioned
    /\ din.msg_type = "factual_question"
    /\ din.action = "escalate"
    /\ AllQueueApproval

\* C2: with auto-reply enabled a decision_required or customer_complaint
\* message is decided queue_approval by the three tables at every
\* confidence, mentioned or not, escalation asked for or not.
C2_AlwaysQueueTypes ==
    (Decided /\ autoReply
        /\ din.msg_type \in {"decision_required", "customer_complaint"})
    => AllQueueApproval

\* a customer complaint at confidence 99, bot mentioned, escalation asked for
C2_Witness ==
    /\ Decided
    /\ autoReply
    /\ din.msg_type = "customer_complaint"
    /\ din.confidence = 99
    /\ din.bot_mentioned
    /\ din.action = "escalate"
    /\ din.escalate_to = "Lothar"
    /\ AllQueueApproval

(***************************************************************************)
(* Properties of the dispatcher (SpecDispatch).                            *)
(***************************************************************************)
\* C3: a dequeued job whose (category, sender) pair violates the routing
\* invariant is transmitted through neither identity.
C3_RoutingViolationsRefused ==
    \A s \in sent :
        s.kind = "job" => ~ViolatesRouting(s.sender_type, s.message_category)

(***************************************************************************)
(* Properties of the bot process (Spec).                                   *)
(***************************************************************************)
\* C4: when the inbound handler receives a message the broadcast identity
\* posted to a group as a translation, whatever its target language, it
\* enqueues no job, creates no approval and runs no classification.
C4_TranslationNeverReingested ==
    lastRun.sender = "bot" =>
        /\ lastRun.enqueued = 0
        /\ lastRun.approval = 0
        /\ ~lastRun.reached_ai

\* C5: the handler never looks up the marker of a translation the broadcast
\* identity has sent and finds none.
C5_MarkerWrittenBeforeLookup ==
    lastRun.marker_lookup # "miss"

\* C6: for a group message classified should_respond = false (the failure
\* fallback is one of the classifications) the group decision table is not
\* called, the action is skip, and the handler creates no approval, sends no
\* notification and sends no reply.
C6_NoResponseMeansSkip ==
    (lastRun.is_group /\ lastRun.reached_ai /\ ~lastRun.classified_respond) =>
        /\ lastRun.decided = "none"
        /\ lastRun.action = "skip"
        /\ lastRun.approval = 0
        /\ ~lastRun.notified
        /\ ~lastRun.replied

\* auto-reply is enabled, another user's group message was translated for
\* the group and classified should_respond = false, and the handler skipped
C6_Witness ==
    /\ autoReply
    /\ lastRun.sender = "other"
    /\ lastRun.is_group
    /\ lastRun.reached_ai
    /\ ~lastRun.classified_respond
    /\ lastRun.enqueued > 0
    /\ lastRun.action = "skip"
    /\ approvals = <<>>

(***************************************************************************)
(* Properties of the dashboard (SpecDash).                                 *)
(***************************************************************************)
\* the job a request queued answers the approval it read: through the
\* operator's account, as a response, to the user or to the group and topic
JobAnswers(r) ==
    /\ r.job.id # 0
    /\ r.job.sender_type = "user"
    /\ r.job.message_category = "response"
    /\ r.job.user_id = r.data.user_id
    /\ r.job.is_group = r.data.is_group
    /\ r.data.is_group =>
          r.job.chat_id = r.data.chat_id /\ r.job.topic_id = r.data.topic_id

\* C7: an approve that reports success has deleted the approval, has added
\* one job (response, operator's account, text = the stored AI suggestion,
\* addressed to the approval's user or group and topic) and no Correction.
C7_ApproveDeletesAndQueuesOne ==
    (lastResponse.op = "approve" /\ lastResponse.result = "ok") =>
        /\ lastResponse.token \notin DOMAIN approvals
        /\ JobAnswers(lastResponse)
        /\ lastResponse.job.message = lastResponse.data.ai_suggestion
        /\ lastResponse.corrected = 0

\* C8: for each token at most one job is ever enqueued, whatever the
\* interleaving of the approve, edit and skip requests.
C8_TokensSingleUse ==
    \A k \in 1..MaxApprovals : enqueuedFor[k] <= 1

\* C9: an edit with a non-empty text that reports success has deleted the
\* approval, has added one job (response, operator's account) carrying the
\* new text, and one Correction pairing the AI suggestion with the new text.
C9_EditDeletesQueuesAndCorrects ==
    (lastResponse.op = "edit" /\ lastResponse.result = "ok") =>
        /\ lastResponse.token \notin DOMAIN approvals
        /\ JobAnswers(lastResponse)
        /\ lastResponse.job.message.body = Strip(lastResponse.raw)
        /\ lastResponse.corrected = 1
        /\ \E i \in DOMAIN corrections :
              /\ corrections[i].ai_suggestion = lastResponse.data.ai_suggestion
              /\ corrections[i].your_edit.body = Strip(lastResponse.raw)

\* C10: a skip deletes its approval and leaves the queue, the Corrections
\* and every other approval as they were; when the delete fails the skip
\* reports failure and the approvals are as they were.
C10_SkipOnlyDeletesItsApproval ==
    [][\A t \in Threads :
         /\ (thr[t].pc = "idle" /\ thr'[t].op = "skip" /\ thr'[t].pc = "delete") =>
                /\ queue' = queue
                /\ corrections' = corrections
                /\ approvals' = approvals
         /\ (thr[t].op = "skip" /\ thr[t].pc = "delete" /\ thr'[t].pc = "idle") =>
                /\ queue' = queue
                /\ corrections' = corrections
                /\ \A k \in DOMAIN approvals \ {thr[t].token} :
                      k \in DOMAIN approvals' /\ approvals'[k] = approvals[k]
                /\ lastResponse'.result \in {"ok", "failed"}
                /\ lastResponse'.result = "ok" =>
                      thr[t].token \notin DOMAIN approvals'
                /\ lastResponse'.result = "failed" => approvals' = approvals
    ]_vars

\* a skip has answered success: its approval is gone, another one is still
\* pending, nothing was queued and nothing corrected
C10_Witness ==
    /\ lastResponse.op = "skip"
    /\ lastResponse.result = "ok"
    /\ lastResponse.token \notin DOMAIN approvals
    /\ DOMAIN approvals # {}
    /\ queue = <<>>
    /\ corrections = <<>>

\* C11: approve, edit, skip and translate-preview on a token that has no
\* approval (never stored, or consumed by an earlier request) answer
\* 'Invalid token' and leave the approvals, the queue and the Corrections as
\* they were, and no request goes on to act for such a token; an edit with an
\* empty or whitespace-only text on an existing token is rejected with no
\* change either.
C11_MissingTokenIsNotFound ==
    [][requests' # requests =>
         /\ approvals' = approvals
         /\ queue' = queue
         /\ corrections' = corrections
         /\ thr' # thr =>
               \A t \in Threads :
                   thr'[t] # thr[t] => thr'[t].token \in DOMAIN approvals
         /\ thr' = thr =>
               /\ lastResponse'.token \notin DOMAIN approvals =>
                     lastResponse'.result = "invalid"
               /\ (lastResponse'.op = "edit" /\ Strip(lastResponse'.raw) = "") =>
                     lastResponse'.result \in {"invalid", "empty"}
    ]_vars

\* a request for a token that an earlier approve consumed was answered
\* 'Invalid token'; the job of the approve is the only one queued
C11_Witness ==
    /\ lastResponse.result = "invalid"
    /\ lastResponse.op \in {"approve", "edit", "skip", "translate"}
    /\ lastResponse.token \in 1..MaxApprovals
    /\ lastResponse.token \notin DOMAIN approvals
    /\ enqueuedFor[lastResponse.token] = 1
    /\ Len(queue) = 1
    /\ faults = 0

(***************************************************************************)
(* Properties of the inbound handler's outcomes (Spec).                    *)
(***************************************************************************)
\* the step is a run of handle_incoming_message (each run is for a new id)
HandlerRan == lastRun'.id # lastRun.id

\* the jobs the step adds to the queue for the operator's account as responses
NewResponseJobs ==
    {i \in DOMAIN queue' :
        /\ queue'[i].id >= nextRowId
        /\ queue'[i].message_category = "response"
        /\ queue'[i].sender_type = "user"}

\* C12: a run of the handler whose decision is auto_send enqueues exactly one
\* job (category response, operator's account) for the reply and creates no
\* pending approval.
C12_AutoSendQueuesOneResponse ==
    [][(HandlerRan /\ lastRun'.action = "auto_send") =>
          /\ Cardinality(NewResponseJobs) = 1
          /\ approvals' = approvals
          /\ lastRun'.approval = 0
    ]_vars

\* the jobs the step adds to the queue, in the order of their ids
NewJobs == SelectSeq(queue', LAMBDA r : r.id >= nextRowId)

\* the target languages of a sequence of jobs
TargetsOf(rows) == [i \in DOMAIN rows |-> rows[i].target_language]

\* C24: a run of the handler for an accepted group message enqueues exactly
\* one job per configured language other than the detected source language,
\* each with category translation and the broadcast identity as sender,
\* whatever the run decides afterwards and whether or not the translator
\* answered.
C24_OneTranslationPerTarget ==
    [][(HandlerRan /\ lastRun'.is_group /\ ~lastRun'.ignored) =>
          /\ \E source \in DETECTED_LANGUAGES :
                TargetsOf(NewJobs) = BroadcastTargets(group_languages, source)
          /\ \A i \in DOMAIN NewJobs :
                /\ NewJobs[i].message_category = "translation"
                /\ NewJobs[i].sender_type = "bot"
    ]_vars

\* C29: a write to the store that meets "database is locked" ends as a
\* failure of that write alone and does not raise out of the operation: a run
\* of the handler for an accepted message of another user goes on to the
\* analysis of the message whether or not its inserts into the queue
\* succeeded.
C29_LockedWriteIsContained ==
    [][(HandlerRan /\ ~lastRun'.ignored /\ lastRun'.sender = "other") =>
          lastRun'.reached_ai]_vars

(***************************************************************************)
(* Properties of the analysis pipeline (SpecPipeline).                     *)
(***************************************************************************)
\* the entities of the run match nothing in the store
NothingResolved ==
    /\ pin.entities.project \in {"none", "not_found"}
    /\ pin.entities.date \in {"none", "free"}

\* C13: for a factual_question whose entities match nothing in the store the
\* reply confidence handed to the decision is at most 50, whatever the model
\* reported.
C13_FactualWithoutContextAtMost50 ==
    (pout.generated /\ pin.cls.message_type = "factual_question" /\ NothingResolved)
    => pout.reply.confidence <= 50

\* C14: the confidence the reply generator returns is in 0..100, never above
\* the confidence the model reported, at most 70 when no project was
\* resolved, at most 60 for scheduling with no schedule entries and at most
\* 75 for decision_required and customer_complaint.
C14_ConfidenceCeilings ==
    pout.generated =>
        /\ pout.reply.confidence \in 0..100
        /\ pout.reply.confidence <= pin.answer.confidence
        /\ pin.entities.project # "found" => pout.reply.confidence <= 70
        /\ (pin.cls.message_type = "scheduling" /\ pin.entities.date # "scheduled")
              => pout.reply.confidence <= 60
        /\ pin.cls.message_type \in {"decision_required", "customer_complaint"}
              => pout.reply.confidence <= 75

\* a customer complaint about a known project, the model reported 100: the
\* reply carries the ceiling of its type
C14_Witness ==
    /\ pout.generated
    /\ pin.answer.ok
    /\ pin.answer.confidence = 100
    /\ pin.cls.message_type = "customer_complaint"
    /\ pin.entities.project = "found"
    /\ pout.reply.confidence = 75

(***************************************************************************)
(* More properties of the decision tables (SpecDecide).                    *)
(***************************************************************************)
\* C15: the group table returns auto_send exactly when auto-reply is
\* enabled, the type is not an always-queue type, and the bot was mentioned
\* with confidence >= 90, or the type is factual_question with confidence
\* >= 90, or the type is technical_problem with urgency critical and
\* confidence >= 85; in every other case it returns queue_approval, never
\* escalate or skip.
C15_GroupTable ==
    Decided =>
        LET sends ==
                /\ autoReply
                /\ din.msg_type \notin {"decision_required", "customer_complaint"}
                /\ \/ din.bot_mentioned /\ din.confidence >= 90
                   \/ din.msg_type = "factual_question" /\ din.confidence >= 90
                   \/ /\ din.msg_type = "technical_problem"
                      /\ din.urgency = "critical"
                      /\ din.confidence >= 85
        IN  /\ sends <=> dout.group.action = "auto_send"
            /\ ~sends <=> dout.group.action = "queue_approval"

\* a critical technical problem at confidence 85, bot not mentioned, is
\* answered automatically in a group
C15_Witness ==
    /\ Decided
    /\ autoReply
    /\ din.msg_type = "technical_problem"
    /\ din.urgency = "critical"
    /\ din.confidence = 85
    /\ ~din.bot_mentioned
    /\ dout.group.action = "auto_send"

\* the draft asks for an escalation
EscalationRequested == din.action = "escalate" \/ din.escalate_to # "null"

\* C16: on the DM path, auto-reply enabled and a type outside the
\* always-queue set, a draft whose action is escalate or that names an
\* escalation target is decided escalate at every confidence.
C16_DmEscalationBeforeAutoSend ==
    (Decided /\ autoReply /\ din.msg_type \notin ALWAYS_QUEUE /\ EscalationRequested)
    => /\ dout.integrated.action = "escalate"
       /\ dout.dm.action = "escalate"

\* C17: on the DM path, auto-reply enabled, a type outside the always-queue
\* set and no escalation asked for: confidence >= 90 gives auto_send for every
\* type; 85..89 gives auto_send exactly for the types of the table's
\* safe-auto-send set; below 85 gives queue_approval, with the uncertainty
\* warning when the confidence is below 60.
C17_DmConfidenceBands ==
    (Decided /\ autoReply /\ din.msg_type \notin ALWAYS_QUEUE /\ ~EscalationRequested)
    => /\ din.confidence >= 90 =>
             /\ dout.integrated.action = "auto_send"
             /\ dout.dm.action = "auto_send"
       /\ din.confidence \in 85..89 =>
             /\ dout.integrated.action = "auto_send"
                   <=> din.msg_type \in SAFE_AUTO_SEND_INTEGRATED
             /\ dout.dm.action = "auto_send"
                   <=> din.msg_type \in SAFE_AUTO_SEND_GROUP_AWARE
       /\ din.confidence < 85 =>
             /\ dout.integrated.action = "queue_approval"
             /\ dout.dm.action = "queue_approval"
             /\ din.confidence < 60 => dout.integrated.warning /\ dout.dm.warning

CriticalTechnicalBelowVeryHigh ==
    /\ din.msg_type = "technical_problem"
    /\ din.urgency = "critical"
    /\ din.confidence \in 85..89

C19_FallbackNeverAutoActs ==
    (pout # NoPipelineOutput /\ ~pin.cls.ok) =>
        /\ pout.action # "auto_send"
        /\ pin.is_group => pout.action = "skip"
        /\ ~pin.is_group => pout.action = "queue_approval"

\* auto-reply enabled, the DM classification fell back, the model answered
\* the reply prompt with confidence 100 and action auto_send: queued
C19_Witness ==
    /\ autoReply
    /\ ~pin.is_group
    /\ ~pin.cls.ok
    /\ pin.answer.ok
    /\ pin.answer.confidence = 100
    /\ pin.answer.action = "auto_send"
    /\ pout.generated
    /\ pout.action = "queue_approval"

(***************************************************************************)
(* More properties of the inbound handler (Spec).                          *)
(***************************************************************************)
\* C20: the run of the handler for a message of another user ends in exactly
\* one outcome, whatever fails: skip (groups only), a direct reply, or one
\* new pending approval followed by one notification to the operator.
C20_ExactlyOneOutcome ==
    (lastRun.sender = "other" /\ ~lastRun.ignored) =>
        LET skipped == lastRun.reached_ai /\ lastRun.is_group /\ lastRun.action = "skip"
            replied == lastRun.replied
            queued == lastRun.approval # 0 /\ lastRun.notified
        IN  /\ skipped \/ replied \/ queued
            /\ ~(skipped /\ replied) /\ ~(skipped /\ queued) /\ ~(replied /\ queued)
            /\ lastRun.approval # 0 => lastRun.notified

(***************************************************************************)
(* Properties of the dispatcher's order (SpecOrder).                       *)
(***************************************************************************)
\* C21: outbound jobs are dispatched in enqueue order: the job the dispatcher
\* has in hand was enqueued before every other job in the queue, whichever
\* process enqueued them.
C21_DispatchInEnqueueOrder ==
    worker.pc # "poll" => \A i \in DOMAIN queue : queue[i].id >= worker.row.id

(***************************************************************************)
(* Properties of the dispatcher (SpecDispatch).                            *)
(***************************************************************************)
\* the dispatcher is done with a job: back from a transmission, or a
\* transmission that raised (the only failures of SpecDispatch at "poll")
AttemptOver ==
    /\ worker'.pc = "poll"
    /\ worker.pc # "poll" \/ (queue # <<>> /\ faults' # faults)

\* the job the dispatcher is working on
Attempted == IF worker.pc = "poll" THEN Head(queue) ELSE worker.row

\* C22: every dequeued job gets exactly one dispatch attempt: when the attempt
\* is over, whether the transmission succeeded or raised, the job's row is
\* deleted, so that the job is never transmitted again.
C22_OneAttemptPerJob ==
    [][AttemptOver => \A i \in DOMAIN queue' : queue'[i].id # Attempted.id]_vars

C25_SameLanguageIsIdentity ==
    (lastCall.called /\ lastCall.source_lang = lastCall.target_lang) =>
        /\ lastCall.out.result.translated_text = lastCall.text
        /\ ~lastCall.out.external
        /\ ~lastCall.out.cache_read
        /\ ~lastCall.out.cache_write

\* C26: once a call of translate has obtained a translation of (text, target)
\* from the external service, every later call for the same (text, target),
\* whatever its source language, returns exactly that translation, flagged
\* as coming from the cache, and makes no external call.
C26_RepeatComesFromCache ==
    [][\A k \in CacheKeys :
          (obtained[k] # "none" /\ lastCall'.text = k[1]
                                /\ lastCall'.target_lang = k[2]) =>
              /\ lastCall'.out.result.translated_text = obtained[k]
              /\ lastCall'.out.result.from_cache
              /\ ~lastCall'.out.external
    ]_vars

\* C27: when the external translation call fails, translate returns the
\* original text unchanged, tagged with an error, and leaves the cache as it
\* was; a call that follows a failed one with the same text, target and
\* source, and finds nothing in the cache, calls the external service again.
C27_FailureIsNotCached ==
    [][/\ lastCall'.out.raised =>
            /\ lastCall'.out.result.translated_text = lastCall'.text
            /\ lastCall'.out.result.error
            /\ ~lastCall'.out.cache_write
            /\ translation_cache' = translation_cache
       /\ (/\ lastCall.out.raised
           /\ lastCall'.text = lastCall.text
           /\ lastCall'.target_lang = lastCall.target_lang
           /\ lastCall'.src = lastCall.src
           /\ ~lastCall'.out.result.from_cache) => lastCall'.out.external
    ]_vars

\* a call failed at the external service while the cache held a translation
\* of another request
C27_Witness ==
    /\ lastCall.out.raised
    /\ lastCall.out.result.error
    /\ translation_cache # <<>>

(***************************************************************************)
(* Properties of the corrections (SpecDash).                               *)
(***************************************************************************)
\* C28: corrections are append-only: a step that changes the table keeps
\* every existing row as it is and adds one row at the end, and it is the
\* step of an edit-and-approve request whose job has been queued; the row
\* holds that request's approval and edited text.
C28_CorrectionsAppendOnly ==
    [][corrections' # corrections =>
          /\ Len(corrections') = Len(corrections) + 1
          /\ SubSeq(corrections', 1, Len(corrections)) = corrections
          /\ \E t \in Threads :
                /\ thr[t].op = "edit"
                /\ thr[t].job # NoRow
                /\ thr[t].job.message = thr[t].message
                /\ corrections'[Len(corrections')] =
                      Correction(thr[t].data, thr[t].message)
    ]_vars

\* two edit-and-approve requests have stored their corrections
C28_Witness ==
    /\ Len(corrections) = 2
    /\ \E i \in DOMAIN queue : queue[i].message = corrections[2].your_edit

(***************************************************************************)
(* Properties of the handler's runs (SpecHandlers).                        *)
(***************************************************************************)
\* the runs that have started and not ended
InProgress == {r \in Runs : runs[r] \in HANDLER_AWAITS}

\* C31: inbound events are processed one at a time: at most one run of the
\* handler is between its start and its end, so that no run starts while
\* another one waits at one of its awaits.
C31_OneRunAtATime == Cardinality(InProgress) <= 1

(***************************************************************************)
(* Properties of the language preferences (SpecPreferences).               *)
(***************************************************************************)
\* what get_user_language is expected to return for a user whose last
\* successful set was of language last_set
Preferred(last_set) == IF last_set = "none" THEN "en" ELSE last_set

\* the stored preference of a user
Stored(table, u) == GetUserLanguage(table, u, TRUE)

EnqueuesResponse == \E i \in DOMAIN NewJobs : NewJobs[i].message_category = "response"

\* the step is an approve (or edit) of a pending approval
Approves == \E t \in DOMAIN approvals : enqueuedFor'[t] = enqueuedFor[t] + 1

\* In the bot process with the dashboard's approve (Spec), with auto-reply
\* disabled: handle_incoming_message sends no reply itself, a job of category
\* response enters the queue only in a step that approves a pending approval,
\* the job the dispatcher transmits is a row of the queue, and what the
\* operator's account transmits from the queue is a job of category response.
HandlerAndDispatcherWaitForApproval ==
    /\ [](~autoReply =>
            /\ \A tr \in sent : tr.kind # "auto_reply"
            /\ \A tr \in sent :
                  (tr.kind = "job" /\ tr.via = "user") =>
                      tr.message_category = "response"
            /\ worker.pc # "poll" => \E i \in DOMAIN queue : queue[i] = worker.row)
    /\ [][(~autoReply /\ EnqueuesResponse) => Approves]_vars

\* C33: with auto-reply disabled, what the operator's account sends to a
\* sender or to a group is a job of the queue (a response job, enqueued by an
\* approve or an edit); the only other message it sends is the notification
\* to the operator's own account.
C33_NoReplyWithoutApproval ==
    ~autoReply =>
        \A tr \in sent : tr.via = "user" => tr.kind \in {"job", "notification"}

(***************************************************************************)
(* Properties of the dispatch of approved replies (SpecReplies).           *)
(***************************************************************************)
\* the queued translation jobs of the text with the given body into lang
TranslationJobsFor(body, lang) ==
    {i \in DOMAIN queue :
        /\ queue[i].message_category = "translation"
        /\ queue[i].message.body = body
        /\ queue[i].target_language = lang}

\* C34: an approved group reply is broadcast in translation at most once per
\* configured target language: the queue never holds two translation jobs of
\* the reply for the same language.
C34_OneBroadcastPerLanguage ==
    \A k \in DOMAIN group_languages :
        Cardinality(TranslationJobsFor("ai_reply", group_languages[k])) <= 1

(***************************************************************************)
(* Properties of the fan-out of one message (Spec).                        *)
(***************************************************************************)
\* C35: fan-out is bounded: a dispatched translation job never causes a
\* further job, that is, the run of the handler for a message the broadcast
\* identity posted adds no job to the queue.
C35_TranslationCausesNoJob ==
    [][(HandlerRan /\ lastRun'.sender = "bot") => NewJobs = <<>>]_vars

(***************************************************************************)
(* Properties of the rows of the queue under every schema (SpecSchema).    *)
(***************************************************************************)
\* the (sender, category) pair of a stored row as get_next_outgoing reads it
RoutingPair(r) ==
    LET read == GetNextOutgoing(columns, <<r>>)
    IN  <<read.sender_type, read.message_category>>

\* C36: every row of the queue, read with the defaults of the columns the
\* table lacks, has the pair (bot, translation) or (user, response).
C36_RowsSatisfyRouting ==
    \A i \in DOMAIN queue :
        RoutingPair(queue[i]) \in {<<"bot", "translation">>, <<"user", "response">>}

(***************************************************************************)
(* Properties of the handler's runs for the operator's own messages.       *)
(***************************************************************************)
\* C37: a run of the handler for a message whose sender is the operator's own
\* account does not reach the analysis: it stores no pending approval, sends
\* no notification and sends no reply.
C37_OwnMessagesSkipAnalysis ==
    [][(HandlerRan /\ lastRun'.sender = "you") =>
          /\ ~lastRun'.reached_ai
          /\ lastRun'.approval = 0
          /\ ~lastRun'.notified
          /\ ~lastRun'.replied
          /\ approvals' = approvals
    ]_vars

====
